---- MODULE Spec2Model ----
(***************************************************************************)
(* Periodic dialplan hooks: funcs/func_periodic_hook.c.                    *)
(*                                                                         *)
(* The state is the module's global hook-ID counter, the hook_state        *)
(* records the module allocates, and, per channel, the datastore list and  *)
(* the audiohook list those records are linked into.  Control threads run  *)
(* PERIODIC_HOOK() reads (hook_read -> hook_on -> init_hook) and writes    *)
(* (hook_write -> hook_off / hook_re_enable); the channel's media thread   *)
(* runs hook_callback once per frame; channel destruction runs             *)
(* hook_datastore_destroy_callback once per datastore.                     *)
(*                                                                         *)
(* C strings are sequences of one-character strings, the NULL pointer is   *)
(* the value NULL.  Times are milliseconds of the wall clock counted from  *)
(* the start of the run; the all-zero timeval left by ast_calloc is TvZero.*)
(***************************************************************************)
EXTENDS Integers, Sequences, FiniteSets, TLC

\* ------------------------------------------------------------------ bounds
\* Number of hook IDs handed out in a run: hook_read is disabled once
\* global_hook_id reaches it, so the 32-bit counter never wraps in the model.
MaxIds == 2
\* The same under SpecTimer.
TimerIds == 1
\* Last wall-clock instant of a run under SpecTimer, in milliseconds.
MaxTime == 2600
\* Last wall-clock instant of a run under Spec: one step of the clock, longer
\* than the interval of one second.
LifeTime == 1001

\* Frames fed in each phase of the end-to-end run, one per millisecond.
E2EFrames == 3000
\* Hook IDs handed out in the end-to-end run.
E2EIds == 2

Chans == {1, 2}
Threads == {1, 2}
\* Addresses of hook_state allocations; an address is never handed out twice.
StateIds == 1..MaxIds
\* Steps of the wall clock between two events under SpecTimer: 352 + 352 = 704
\* and 500 + 500 = 1000 land exactly on the two thresholds of the model.
TickSteps == {352, 500}

\* ----------------------------------------------------------------- strings
NULL == <<"(null)">>

DigitChars == <<"0", "1", "2", "3", "4", "5", "6", "7", "8", "9">>

IsDigit(ch) == \E i \in 1..10 : DigitChars[i] = ch

DigitVal(ch) == (CHOOSE i \in 1..10 : DigitChars[i] = ch) - 1

\* strings.h ast_strlen_zero: a NULL or an empty string.
ast_strlen_zero(s) == s = NULL \/ s = <<>>

\* S_OR(a, b): a unless it is NULL or empty.
S_OR(a, b) == IF ast_strlen_zero(a) THEN b ELSE a

\* snprintf(buf, len, "%u", n): the decimal digits of n, no leading zero.
RECURSIVE FmtU(_)
FmtU(n) ==
    IF n < 10 THEN <<DigitChars[n + 1]>>
    ELSE FmtU(n \div 10) \o <<DigitChars[(n % 10) + 1]>>

\* Index of the first "," of s at or after i, 0 if there is none.
RECURSIVE FindComma(_, _)
FindComma(s, i) ==
    IF i > Len(s) THEN 0
    ELSE IF s[i] = "," THEN i
    ELSE FindComma(s, i + 1)

\* AST_STANDARD_APP_ARGS on a struct of n argument slots: the string is cut at
\* its commas into at most n fields, the last field keeping the remainder;
\* slots beyond the fields found stay NULL (the struct is zeroed first).  An
\* empty string yields no field at all.
RECURSIVE AppArgs(_, _)
AppArgs(s, n) ==
    IF n = 0 THEN <<>>
    ELSE IF n = 1 THEN <<s>>
    ELSE LET k == FindComma(s, 1)
         IN  IF k = 0 THEN <<s>> \o [i \in 1..(n - 1) |-> NULL]
             ELSE <<SubSeq(s, 1, k - 1)>> \o AppArgs(SubSeq(s, k + 1, Len(s)), n - 1)

AST_STANDARD_APP_ARGS(parse) ==
    LET a == IF parse = <<>> THEN <<NULL, NULL, NULL>> ELSE AppArgs(parse, 3)
    IN  [context |-> a[1], exten |-> a[2], interval |-> a[3]]

\* Number of leading blanks of s from index i on.
RECURSIVE SkipSpace(_, _)
SkipSpace(s, i) ==
    IF i <= Len(s) /\ s[i] = " " THEN SkipSpace(s, i + 1) ELSE i

\* Value and length of the digit run of s that starts at i, at most w digits.
RECURSIVE ScanDigits(_, _, _, _, _)
ScanDigits(s, i, w, n, v) ==
    IF w > 0 /\ i <= Len(s) /\ IsDigit(s[i])
    THEN ScanDigits(s, i + 1, w - 1, n + 1, v * 10 + DigitVal(s[i]))
    ELSE [n |-> n, v |-> v]

\* sscanf(s, "%30u", &interval): blanks are skipped, then up to 30 digits are
\* converted; the result is the number of conversions made, 0 when no digit
\* is found.  (The inputs drawn below carry no sign and stay below 2^31.)
sscanf_30u(s) ==
    LET d == ScanDigits(s, SkipSpace(s, 1), 30, 0, 0)
    IN  [count |-> IF d.n > 0 THEN 1 ELSE 0, value |-> d.v]

\* -------------------------------------------------------------------- time
\* A struct timeval in milliseconds.  ast_tvnow() is the wall clock: the
\* instant Boot at which the run starts (far more than 2^32 ms after the
\* epoch) plus the model's clock; the zeroed timeval is the epoch itself.
TvZero == [epoch |-> FALSE, ms |-> 0]

ast_tvnow(clk) == [epoch |-> TRUE, ms |-> clk]

\* ast_tvdiff_ms(end, start) as an int64: big tells that the difference
\* contains Boot, ms is the rest.
ast_tvdiff_ms(end, start) ==
    [big |-> end.epoch /\ ~start.epoch, ms |-> end.ms - start.ms]

\* state->interval * 1000: both operands are unsigned int, so the product is
\* taken modulo 2^32.  The result is kept as two 16-bit halves.
IntervalMs(interval) ==
    LET q == interval \div 65536
        p == (interval % 65536) * 1000
    IN  [hi |-> (q * 1000 + (p \div 65536)) % 65536, lo |-> p % 65536]

\* diff > threshold, the int64 difference against the unsigned int threshold
\* (converted to int64, so the comparison is signed and exact).
ElapsedGt(diff, thr) ==
    \/ diff.big
    \/ /\ thr.hi < 32768
       /\ diff.ms > thr.hi * 65536 + thr.lo

\* ------------------------------------------------------------------- state
VARIABLES
    global_hook_id,  \* static unsigned int global_hook_id
    heap,            \* the hook_state allocations, by address
    datastores,      \* per channel: its datastore list, head first
    audiohooks,      \* per channel: the hook_states on its manipulate list
    chanAlive,       \* per channel: not yet in its destructor
    module_refs,     \* references held on ast_module_info->self
    thr,             \* per control thread: the PERIODIC_HOOK() read in progress
    cb,              \* per hook_state: the hook_callback invocation in progress
    td,              \* per channel: the hook_state its destructor is releasing
    clock,           \* wall clock, ms since the start of the run
    issued,          \* history: every hook ID hook_read has taken, in order,
                     \*          with how the call ended
    owner,           \* history: per hook_state, the channel it was created on
    launches,        \* history: per hook_state, when its threads were started
    detached,        \* history: ast_audiohook_detach calls per hook_state
    freed,           \* history: ast_free(state) calls per hook_state
    tasks,           \* per hook_state: the threads do_hook has started for
                     \*          it, with the hook_thread_arg each was given
    offWindow        \* history: "on", or since the last successful hook_off:
                     \*          "off", "off_frame" once a frame has come, and
                     \*          "reon" from the hook_re_enable that ends it
                     \*          until the next frame

vars == <<global_hook_id, heap, datastores, audiohooks, chanAlive, module_refs,
          thr, cb, td, clock, issued, owner, launches, detached, freed, tasks,
          offWindow>>

\* The argument strings PERIODIC_HOOK(...) is read with.
DataValid1 == <<"c", ",", "e", ",", "1">>

DataValidBig == <<"c", ",", "e", ",", "4", "2", "9", "4", "9", "6", "8">>

DataInputs ==
    { NULL,
      DataValid1,
      DataValidBig,
      <<",", "e", ",", "1">>,
      <<"c", ",", ",", "1">>,
      <<"c", ",", "e", ",", "0">>,
      <<"c", ",", "e">>,
      <<"c", ",", "e", ",", "x">> }

\* What may go wrong inside one init_hook call.
InitFaults == {"none", "datastore_alloc", "state_alloc", "strdup_context",
               "strdup_exten", "attach"}

\* What may go wrong inside one do_hook call.
LaunchFaults == {"none", "arg_calloc", "arg_alloc", "pthread_create"}

NoState ==
    [mem |-> "unused", status |-> "NEW", interval |-> 0, last_hook |-> TvZero,
     context |-> NULL, exten |-> NULL, hook_id |-> 0, disabled |-> 0]

IdleThread ==
    [pc |-> "idle", chan |-> 0, data |-> NULL, hook_id |-> 0, buf |-> <<>>, slot |-> 0]

IdleCallback == [pc |-> "idle", startedOff |-> FALSE, afterOn |-> FALSE]

Init ==
    /\ global_hook_id = 0
    /\ heap = [s \in StateIds |-> NoState]
    /\ datastores = [c \in Chans |-> <<>>]
    /\ audiohooks = [c \in Chans |-> {}]
    /\ chanAlive = [c \in Chans |-> TRUE]
    /\ module_refs = 0
    /\ thr = [t \in Threads |-> IdleThread]
    /\ cb = [s \in StateIds |-> IdleCallback]
    /\ td = [c \in Chans |-> 0]
    /\ clock = 0
    /\ issued = <<>>
    /\ owner = [s \in StateIds |-> 0]
    /\ launches = [s \in StateIds |-> <<>>]
    /\ detached = [s \in StateIds |-> 0]
    /\ freed = [s \in StateIds |-> 0]
    /\ tasks = [s \in StateIds |-> <<>>]
    /\ offWindow = [s \in StateIds |-> "on"]

\* ------------------------------------------------- collaborators (Asterisk)
\* ast_channel_datastore_find(chan, &hook_datastore, uid): the first entry of
\* the channel's list whose uid equals the string given (0: none).  Only this
\* module's datastores are on the lists of the model.
ast_channel_datastore_find(list, uid) ==
    IF \E i \in 1..Len(list) : list[i].uid = uid
    THEN CHOOSE i \in 1..Len(list) :
            /\ list[i].uid = uid
            /\ \A j \in 1..(i - 1) : list[j].uid # uid
    ELSE 0

\* ast_channel_datastore_add(chan, datastore): inserted at the head.
ast_channel_datastore_add(list, datastore) == <<datastore>> \o list

\* ast_true(value) / ast_false(value).
ast_true(value) == value \in {"yes", "true", "y", "t", "1", "on"}

ast_false(value) == value \in {"no", "false", "n", "f", "0", "off"}

\* ast_strdup(s): NULL for a NULL argument or when memory is short.
ast_strdup(s, ok) == IF ok THEN s ELSE NULL

\* ast_audiohook_attach(chan, audiohook): 0 and the hook RUNNING on the
\* channel's list, or -1 with nothing changed.
ast_audiohook_attach(fault) == IF fault = "attach" THEN -1 ELSE 0

\* ast_audiohook_detach(audiohook): nothing for an audiohook that is NEW or
\* DONE; otherwise it is taken off the channel's list and left DONE.
ast_audiohook_detach(status) == IF status \in {"NEW", "DONE"} THEN status ELSE "DONE"

\* ---------------------------------------------------------- the control path
\* ast_atomic_fetchadd_int(&global_hook_id, 1): one indivisible step.
ast_atomic_fetchadd_int(v, d) == v + d

\* hook_read up to the call of hook_on: the ID is taken and printed into buf.
\* cap is the number of IDs the run may hand out.
hook_read(t, c, data, cap) ==
    /\ thr[t].pc = "idle"
    /\ chanAlive[c]
    /\ global_hook_id < cap
    /\ global_hook_id' = ast_atomic_fetchadd_int(global_hook_id, 1)
    /\ issued' = Append(issued, [id |-> global_hook_id, res |-> "pending"])
    /\ thr' = [thr EXCEPT ![t] = [pc |-> "hook_on", chan |-> c, data |-> data,
                                  hook_id |-> global_hook_id,
                                  buf |-> FmtU(global_hook_id),
                                  slot |-> Len(issued) + 1]]
    /\ UNCHANGED <<heap, datastores, audiohooks, chanAlive, module_refs, cb, td,
                   clock, owner, launches, tasks, detached, freed, offWindow>>

\* hook_read without a channel: -1, and nothing is touched.
hook_read_nochan(t) ==
    /\ thr[t].pc = "idle"
    /\ UNCHANGED <<global_hook_id, heap, datastores, audiohooks, chanAlive,
                   module_refs, thr, cb, td, clock, issued, owner, launches, tasks,
                   detached, freed, offWindow>>

\* The arguments hook_on parses out of data.
hook_on_args(data) == AST_STANDARD_APP_ARGS(S_OR(data, <<>>))

\* The two tests of hook_on that turn a call down.
hook_on_bad_interval(args) ==
    \/ ast_strlen_zero(args.interval)
    \/ sscanf_30u(args.interval).count # 1
    \/ sscanf_30u(args.interval).value = 0

hook_on_bad_target(args) ==
    ast_strlen_zero(args.context) \/ ast_strlen_zero(args.exten)

\* (variant: the test of context and extension is left out)
hook_on_rejects_interval_only(args) == hook_on_bad_interval(args)

hook_on_rejects(args) == hook_on_bad_interval(args) \/ hook_on_bad_target(args)

\* (variant: last_hook starts at the time of creation)
hook_state_alloc_stamped(context, exten, interval, hook_id, fault) ==
    [mem |-> "live", status |-> "NEW", interval |-> interval,
     last_hook |-> ast_tvnow(clock),
     context |-> ast_strdup(context, fault # "strdup_context"),
     exten |-> ast_strdup(exten, fault # "strdup_exten"),
     hook_id |-> hook_id, disabled |-> 0]

\* (variant: the hook ID is not stored in the new hook_state)
hook_state_alloc_drops_id(context, exten, interval, hook_id, fault) ==
    [mem |-> "live", status |-> "NEW", interval |-> interval,
     last_hook |-> TvZero,
     context |-> ast_strdup(context, fault # "strdup_context"),
     exten |-> ast_strdup(exten, fault # "strdup_exten"),
     hook_id |-> 0, disabled |-> 0]

\* hook_state_alloc past its ast_calloc: the fields of the new hook_state.
hook_state_alloc(context, exten, interval, hook_id, fault) ==
    [mem |-> "live", status |-> "NEW", interval |-> interval,
     last_hook |-> TvZero,
     context |-> ast_strdup(context, fault # "strdup_context"),
     exten |-> ast_strdup(exten, fault # "strdup_exten"),
     hook_id |-> hook_id, disabled |-> 0]

\* The lowest address not handed out yet.
NewState == CHOOSE s \in StateIds :
                /\ heap[s].mem = "unused"
                /\ \A u \in StateIds : heap[u].mem = "unused" => s <= u

\* The result of init_hook: only the two allocations are tested.
init_hook_res(fault) ==
    IF fault \in {"datastore_alloc", "state_alloc"} THEN -1 ELSE 0

init_hook(c, context, exten, interval, hook_id, fault) ==
    /\ module_refs' = IF fault = "datastore_alloc" THEN module_refs
                      ELSE module_refs + 1
    /\ IF fault \in {"datastore_alloc", "state_alloc"}
       THEN UNCHANGED <<heap, datastores, audiohooks, owner>>
       ELSE LET s == NewState
                state == hook_state_alloc(context, exten, interval, hook_id, fault)
                attached == ast_audiohook_attach(fault) = 0
            IN  /\ heap' = [heap EXCEPT ![s] =
                               [state EXCEPT !.status =
                                   IF attached THEN "RUNNING" ELSE "NEW"]]
                /\ datastores' = [datastores EXCEPT ![c] =
                       ast_channel_datastore_add(@, [uid |-> FmtU(hook_id), data |-> s])]
                /\ audiohooks' = [audiohooks EXCEPT ![c] =
                       IF attached THEN @ \cup {s} ELSE @]
                /\ owner' = [owner EXCEPT ![s] = c]

\* The result of hook_on, which hook_read returns.
hook_on_res(data, fault) ==
    IF hook_on_rejects(hook_on_args(data)) THEN -1 ELSE init_hook_res(fault)

hook_on(t, fault) ==
    /\ thr[t].pc = "hook_on"
    /\ thr' = [thr EXCEPT ![t] = IdleThread]
    /\ LET args == hook_on_args(thr[t].data)
       IN  IF hook_on_rejects(args)
           THEN /\ fault = "none"
                /\ UNCHANGED <<heap, datastores, audiohooks, module_refs, owner>>
           ELSE init_hook(thr[t].chan, args.context, args.exten,
                          sscanf_30u(args.interval).value, thr[t].hook_id, fault)
    /\ issued' = [issued EXCEPT ![thr[t].slot].res =
                      IF hook_on_rejects(hook_on_args(thr[t].data)) THEN "rejected"
                      ELSE IF hook_on_res(thr[t].data, fault) = 0 THEN "ok"
                      ELSE "failed"]
    /\ UNCHANGED <<global_hook_id, chanAlive, cb, td, clock, launches, tasks,
                   detached, freed, offWindow>>

\* The hook IDs PERIODIC_HOOK(<id>)=<value> is written with: every ID the run
\* can hand out, one it never hands out, the empty string and a spelling with
\* a leading zero.
UidInputs == {FmtU(i) : i \in 0..MaxIds} \cup {<<>>, <<"0", "0">>}

ValueInputs == {"off", "on", "maybe"}

\* (variant: the ID is looked up on every channel)
hook_lookup_any_channel(c, uid) ==
    IF ast_strlen_zero(uid) THEN 0
    ELSE IF \E k \in Chans : ast_channel_datastore_find(datastores[k], uid) # 0
         THEN LET k == CHOOSE k \in Chans :
                           ast_channel_datastore_find(datastores[k], uid) # 0
              IN  datastores[k][ast_channel_datastore_find(datastores[k], uid)].data
         ELSE 0

\* The hook_state hook_off and hook_re_enable find under the channel lock
\* (0: the call returns -1 before or after the lookup).
hook_lookup(c, uid) ==
    IF ast_strlen_zero(uid) THEN 0
    ELSE LET i == ast_channel_datastore_find(datastores[c], uid)
         IN  IF i = 0 THEN 0 ELSE datastores[c][i].data

\* hook_off: its result and the heap it leaves.
hook_off_res(c, hook_id) == IF hook_lookup(c, hook_id) = 0 THEN -1 ELSE 0

\* (variant: the audiohook is marked done as well)
hook_off_heap_detaches(c, hook_id) ==
    LET s == hook_lookup(c, hook_id)
    IN  IF s = 0 THEN heap
        ELSE [heap EXCEPT ![s].disabled = 1, ![s].status = "DONE"]

\* (variant: every hook of the channel is disabled)
hook_off_heap_whole_channel(c, hook_id) ==
    IF hook_lookup(c, hook_id) = 0 THEN heap
    ELSE [s \in StateIds |->
             IF \E i \in 1..Len(datastores[c]) : datastores[c][i].data = s
             THEN [heap[s] EXCEPT !.disabled = 1]
             ELSE heap[s]]

hook_off_heap(c, hook_id) ==
    LET s == hook_lookup(c, hook_id)
    IN  IF s = 0 THEN heap ELSE [heap EXCEPT ![s].disabled = 1]

\* hook_re_enable: its result and the heap it leaves.
hook_re_enable_res(c, uid) == IF hook_lookup(c, uid) = 0 THEN -1 ELSE 0

hook_re_enable_heap(c, uid) ==
    LET s == hook_lookup(c, uid)
    IN  IF s = 0 THEN heap ELSE [heap EXCEPT ![s].disabled = 0]

\* The result of hook_write; c = 0 is the call without a channel.
hook_write_res(c, data, value) ==
    IF c = 0 THEN -1
    ELSE IF ast_false(value) THEN hook_off_res(c, data)
    ELSE IF ast_true(value) THEN hook_re_enable_res(c, data)
    ELSE -1

hook_write(c, data, value, watched) ==
    /\ IF c = 0
       THEN UNCHANGED <<heap, offWindow>>
       ELSE IF ast_false(value)
       THEN /\ heap' = hook_off_heap(c, data)
            /\ offWindow' = IF hook_lookup(c, data) \in watched
                            THEN [offWindow EXCEPT ![hook_lookup(c, data)] = "off"]
                            ELSE offWindow
       ELSE IF ast_true(value)
       THEN /\ heap' = hook_re_enable_heap(c, data)
            /\ offWindow' = IF hook_lookup(c, data) \in watched
                            THEN [offWindow EXCEPT ![hook_lookup(c, data)] =
                                      IF @ = "on" THEN "on" ELSE "reon"]
                            ELSE offWindow
       ELSE UNCHANGED <<heap, offWindow>>
    /\ UNCHANGED <<global_hook_id, datastores, audiohooks, chanAlive, module_refs,
                   thr, cb, td, clock, issued, owner, launches, tasks, detached, freed>>

\* ------------------------------------------------------------ the media path
\* hook_thread_arg_alloc: the snapshot handed to the new thread, or NULL when
\* the ast_calloc ("arg_calloc") or one of the copies ("arg_alloc") fails; a
\* copy of a NULL string is NULL.
hook_thread_arg_alloc(c, state, fault) ==
    IF fault \in {"arg_calloc", "arg_alloc"}
       \/ state.context = NULL \/ state.exten = NULL
    THEN [null |-> TRUE, hook_id |-> NULL, chan_name |-> 0,
          context |-> NULL, exten |-> NULL]
    ELSE [null |-> FALSE, hook_id |-> FmtU(state.hook_id), chan_name |-> c,
          context |-> state.context, exten |-> state.exten]

\* do_hook's result: -1 without a snapshot, else what
\* ast_pthread_create_detached_background returned (EAGAIN = 11 on failure).
do_hook(c, state, fault) ==
    IF hook_thread_arg_alloc(c, state, fault).null THEN -1
    ELSE IF fault = "pthread_create" THEN 11
    ELSE 0

\* What hook_launch_thread hands to ast_pbx_outgoing_exten; NoRun before it
\* has done so.
NoRun == [context |-> NULL, exten |-> NULL, HOOK_CHANNEL |-> 0, HOOK_ID |-> NULL]

\* The thread do_hook starts for hook_state s on channel c: its argument is
\* the snapshot hook_thread_arg_alloc made; trigger keeps, for the record, the
\* hook_state's own values at that moment.
NewTask(c, s, fault) ==
    [state |-> s,
     trigger |-> [context |-> heap[s].context, exten |-> heap[s].exten,
                  HOOK_CHANNEL |-> c, HOOK_ID |-> FmtU(heap[s].hook_id)],
     arg |-> hook_thread_arg_alloc(c, heap[s], fault),
     pc |-> "running", frees |-> 0, ran |-> NoRun, stateGone |-> FALSE]

\* The calls of hook_thread_arg_destroy made on the launcher's side, inside
\* hook_thread_arg_alloc and do_hook, for one call of do_hook: none when there
\* is nothing allocated or the thread has been started, one otherwise.
do_hook_destroys(c, state, fault) ==
    IF fault = "arg_calloc" THEN 0
    ELSE IF hook_thread_arg_alloc(c, state, fault).null THEN 1
    ELSE IF fault = "pthread_create" THEN 1
    ELSE 0

\* (variant: the thread reads the hook_state instead of its argument)
hook_launch_thread_reads_state(task) ==
    IF heap[task.state].mem = "freed" THEN NoRun
    ELSE [context |-> heap[task.state].context, exten |-> heap[task.state].exten,
          HOOK_CHANNEL |-> owner[task.state],
          HOOK_ID |-> FmtU(heap[task.state].hook_id)]

\* What hook_launch_thread passes to ast_pbx_outgoing_exten: the target and
\* the two channel variables, all taken from its argument.
hook_launch_thread_originate(task) ==
    [context |-> task.arg.context, exten |-> task.arg.exten,
     HOOK_CHANNEL |-> task.arg.chan_name, HOOK_ID |-> task.arg.hook_id]

\* hook_thread_arg_destroy(arg) on an argument destroyed n times before.
hook_thread_arg_destroy(n) == n + 1

\* hook_launch_thread, from start to return, for the k-th thread started for
\* hook_state s; stateGone notes that the hook_state was freed by then.
hook_launch_thread(s, k) ==
    /\ k \in 1..Len(tasks[s])
    /\ tasks[s][k].pc = "running"
    /\ tasks' = [tasks EXCEPT ![s][k] =
                     [pc |-> "done",
                      ran |-> hook_launch_thread_originate(tasks[s][k]),
                      frees |-> hook_thread_arg_destroy(tasks[s][k].frees),
                      stateGone |-> heap[s].mem = "freed",
                      state |-> s,
                      trigger |-> tasks[s][k].trigger,
                      arg |-> tasks[s][k].arg]]
    /\ UNCHANGED <<global_hook_id, heap, datastores, audiohooks, chanAlive,
                   module_refs, thr, cb, td, clock, issued, owner, launches,
                   detached, freed, offWindow>>

\* (variant: the disabled flag is not looked at)
hook_callback_skips_done_only(state) == state.status = "DONE"

\* The test at the head of hook_callback.
hook_callback_skips(state) == state.status = "DONE" \/ state.disabled # 0

\* (variant: the interval is compared as if it were in milliseconds)
hook_due_unscaled(now, state) ==
    ElapsedGt(ast_tvdiff_ms(now, state.last_hook),
              [hi |-> 0, lo |-> state.interval % 65536])

\* The timer test of hook_callback.
hook_due(now, state) ==
    ElapsedGt(ast_tvdiff_ms(now, state.last_hook), IntervalMs(state.interval))

\* What hook_callback returns: 0 on its early return and when the interval
\* has not elapsed, else res, the result of do_hook.
hook_callback_res(c, state, now, fault) ==
    IF hook_callback_skips(state) THEN 0
    ELSE IF hook_due(now, state) THEN do_hook(c, state, fault)
    ELSE 0

\* The history of a hook's off window once a frame has come.
frame_seen(w) == IF w \in {"off", "off_frame"} THEN "off_frame" ELSE "on"

\* A frame reaches a hook on the channel's manipulate list: the audiohook core
\* calls hook_callback for it with the audiohook locked, and only while the
\* audiohook is RUNNING.  This step is the call up to the test of line 258.
hook_callback_enter(c, s, watched) ==
    /\ s \in audiohooks[c]
    /\ heap[s].status = "RUNNING"
    /\ cb[s].pc = "idle"
    /\ cb' = IF hook_callback_skips(heap[s])
             THEN cb
             ELSE [cb EXCEPT ![s] = [pc |-> "timer",
                                     startedOff |-> offWindow[s] \in {"off", "off_frame"},
                                     afterOn |-> offWindow[s] = "reon"]]
    /\ offWindow' = IF s \in watched
                    THEN [offWindow EXCEPT ![s] = frame_seen(@)]
                    ELSE offWindow
    /\ UNCHANGED <<global_hook_id, heap, datastores, audiohooks, chanAlive,
                   module_refs, thr, td, clock, issued, owner, launches, tasks, detached,
                   freed>>

\* hook_callback from ast_tvnow() to its return.
hook_callback_timer(c, s, fault) ==
    /\ s \in audiohooks[c]
    /\ cb[s].pc = "timer"
    /\ cb' = [cb EXCEPT ![s] = IdleCallback]
    /\ LET now == ast_tvnow(clock)
           res == do_hook(c, heap[s], fault)
       IN  IF hook_due(now, heap[s])
           THEN /\ heap' = [heap EXCEPT ![s].last_hook = now]
                /\ launches' = IF res = 0
                               THEN [launches EXCEPT ![s] = Append(@, clock)]
                               ELSE launches
                /\ tasks' = IF res = 0
                            THEN [tasks EXCEPT ![s] = Append(@, NewTask(c, s, fault))]
                            ELSE tasks
           ELSE /\ fault = "none"
                /\ UNCHANGED <<heap, launches, tasks>>
    /\ UNCHANGED <<global_hook_id, datastores, audiohooks, chanAlive, module_refs,
                   thr, td, clock, issued, owner, detached, freed, offWindow>>

\* hook_callback is due to call do_hook for s when a frame comes on c at now.
frame_due(c, s, now) ==
    /\ s \in audiohooks[c]
    /\ heap[s].status = "RUNNING"
    /\ ~hook_callback_skips(heap[s])
    /\ hook_due(now, heap[s])

\* One frame of a steady stream, one frame per millisecond: the media thread
\* runs hook_callback, from entry to return, for every hook on the channel's
\* list, no allocation and no thread creation failing, and the wall clock has
\* moved by one millisecond when the next frame comes.
frame_every_ms(c, horizon) ==
    /\ chanAlive[c]
    /\ audiohooks[c] # {}
    /\ \A t \in Threads : thr[t].pc = "idle"
    /\ \A s \in StateIds : cb[s].pc = "idle"
    /\ clock < horizon
    /\ LET now == ast_tvnow(clock)
           launched(s) == frame_due(c, s, now) /\ do_hook(c, heap[s], "none") = 0
       IN  /\ heap' = [s \in StateIds |->
                          IF frame_due(c, s, now)
                          THEN [heap[s] EXCEPT !.last_hook = now]
                          ELSE heap[s]]
           /\ launches' = [s \in StateIds |->
                              IF launched(s) THEN Append(launches[s], clock)
                              ELSE launches[s]]
           /\ tasks' = [s \in StateIds |->
                           IF launched(s)
                           THEN Append(tasks[s], NewTask(c, s, "none"))
                           ELSE tasks[s]]
    /\ offWindow' = [s \in StateIds |->
                        IF s \in audiohooks[c] THEN frame_seen(offWindow[s])
                        ELSE offWindow[s]]
    /\ clock' = clock + 1
    /\ UNCHANGED <<global_hook_id, datastores, audiohooks, chanAlive, module_refs,
                   thr, cb, td, issued, owner, detached, freed>>

\* ------------------------------------------------------------------ teardown
\* The channel's destructor starts.  A thread inside PERIODIC_HOOK() holds a
\* reference to its channel, so the destructor does not run under it.
channel_destructor(c) ==
    /\ chanAlive[c]
    /\ \A t \in Threads : thr[t].pc = "idle" \/ thr[t].chan # c
    /\ chanAlive' = [chanAlive EXCEPT ![c] = FALSE]
    /\ UNCHANGED <<global_hook_id, heap, datastores, audiohooks, module_refs, thr,
                   cb, td, clock, issued, owner, launches, tasks, detached, freed,
                   offWindow>>

\* The calls of ast_audiohook_detach, and of ast_free(state), made for a
\* hook_state once hook_datastore_destroy_callback has run for it on top of n
\* earlier ones.
\* (variant: the audiohook is detached a second time)
destroy_detach_twice(n) == n + 2

destroy_detach_calls(n) == n + 1

destroy_free_calls(n) == n + 1

\* (variant: the audiohook lock is not waited for)
audiohook_lock_not_taken(s) == TRUE

\* ast_audiohook_lock(&state->audiohook) can be taken: the audiohook core
\* holds this lock around every call of hook_callback.
ast_audiohook_lock(s) == cb[s].pc = "idle"

\* The destructor takes the head datastore off the list and calls
\* hook_datastore_destroy_callback; this step is its locked section
\* (lines 134-136), entered once no hook_callback holds the audiohook lock.
hook_datastore_destroy_callback_detach(c) ==
    /\ ~chanAlive[c]
    /\ td[c] = 0
    /\ datastores[c] # <<>>
    /\ LET s == Head(datastores[c]).data
       IN  /\ ast_audiohook_lock(s)
           /\ datastores' = [datastores EXCEPT ![c] = Tail(@)]
           /\ heap' = [heap EXCEPT ![s].status = ast_audiohook_detach(@)]
           /\ audiohooks' = [audiohooks EXCEPT ![c] = @ \ {s}]
           /\ detached' = [detached EXCEPT ![s] = destroy_detach_calls(@)]
           /\ td' = [td EXCEPT ![c] = s]
    /\ UNCHANGED <<global_hook_id, chanAlive, module_refs, thr, cb, clock,
                   issued, owner, launches, tasks, freed, offWindow>>

\* The rest of hook_datastore_destroy_callback (lines 137-143).
hook_datastore_destroy_callback_free(c) ==
    /\ td[c] # 0
    /\ heap' = [heap EXCEPT ![td[c]].mem = "freed"]
    /\ freed' = [freed EXCEPT ![td[c]] = destroy_free_calls(@)]
    /\ module_refs' = module_refs - 1
    /\ td' = [td EXCEPT ![c] = 0]
    /\ UNCHANGED <<global_hook_id, datastores, audiohooks, chanAlive, thr, cb,
                   clock, issued, owner, launches, tasks, detached, offWindow>>

\* ---------------------------------------------------------------------- time
\* The wall clock advances by d, up to the horizon of the run.
Tick(d, horizon) ==
    /\ clock + d <= horizon
    /\ clock' = clock + d
    /\ UNCHANGED <<global_hook_id, heap, datastores, audiohooks, chanAlive,
                   module_refs, thr, cb, td, issued, owner, launches, tasks, detached,
                   freed, offWindow>>

\* One step of the program, its inputs drawn from the sets given; watched are
\* the hook_states whose off windows are recorded in offWindow.
NextOver(threads, chans, datas, cap, uids, initFaults, ticks, horizon, watched) ==
    \/ \E t \in threads, c \in chans, data \in datas : hook_read(t, c, data, cap)
    \/ \E t \in threads : hook_read_nochan(t)
    \/ \E t \in threads, fault \in initFaults : hook_on(t, fault)
    \/ \E c \in chans \cup {0}, data \in uids, value \in ValueInputs :
           hook_write(c, data, value, watched)
    \/ \E c \in chans, s \in StateIds : hook_callback_enter(c, s, watched)
    \/ \E c \in chans, s \in StateIds, fault \in LaunchFaults :
           hook_callback_timer(c, s, fault)
    \/ \E c \in chans : channel_destructor(c)
    \/ \E c \in chans : hook_datastore_destroy_callback_detach(c)
    \/ \E c \in chans : hook_datastore_destroy_callback_free(c)
    \/ \E d \in ticks : Tick(d, horizon)

\* The control surface and the life cycle: two channels, two control threads,
\* every argument string but the overflowing interval, every failure of
\* init_hook that it can see or that leaves a hook unattached, and a clock
\* that moves once, by more than one interval.  No off window is recorded.
Next ==
    NextOver(Threads, Chans, DataInputs \ {DataValidBig}, MaxIds, UidInputs,
             InitFaults \ {"strdup_context", "strdup_exten"}, {LifeTime}, LifeTime,
             {})

Spec == Init /\ [][Next]_vars

\* The timer: one channel and one control thread, TimerIds hooks with the
\* interval 1 or 4294968, every failure of init_hook and of do_hook, and a
\* clock that moves in TickSteps up to MaxTime.
NextTimer ==
    NextOver({1}, {1}, {DataValid1, DataValidBig}, TimerIds,
             {FmtU(i) : i \in 0..(TimerIds - 1)}, InitFaults, TickSteps, MaxTime,
             StateIds)

SpecTimer == Init /\ [][NextTimer]_vars

\* The launched threads: one channel, one control thread, TimerIds hooks with
\* an interval of one second, every failure of do_hook, a clock that moves in
\* steps of LifeTime, and every thread do_hook has started running to its end
\* at any later moment.
NextLaunch ==
    \/ NextOver({1}, {1}, {DataValid1}, TimerIds,
                {FmtU(i) : i \in 0..(TimerIds - 1)}, {"none", "attach"},
                {LifeTime}, 2 * LifeTime, {})
    \/ \E s \in StateIds, k \in 1..3 : hook_launch_thread(s, k)

SpecLaunch == Init /\ [][NextLaunch]_vars

\* The end-to-end run on one channel: hooks with an interval of one second are
\* created before the first frame (a call with an interval of 0 may come
\* first and use up a hook ID); E2EFrames frames follow, one per millisecond;
\* every hook is turned off and E2EFrames more frames follow; every hook is
\* turned on again and the frames go on for one interval and a millisecond.
E2EOff == E2EFrames

E2EOn == 2 * E2EFrames

E2EEnd == E2EOn + LifeTime

E2EPhaseReady ==
    \A s \in audiohooks[1] :
        heap[s].disabled = (IF clock >= E2EOff /\ clock < E2EOn THEN 1 ELSE 0)

NextE2E ==
    \/ /\ clock = 0
       /\ \E data \in {DataValid1, <<"c", ",", "e", ",", "0">>} :
              hook_read(1, 1, data, E2EIds)
    \/ hook_on(1, "none")
    \/ /\ clock = E2EOff
       /\ \E uid \in {FmtU(i) : i \in 0..(E2EIds - 1)} : hook_write(1, uid, "off", StateIds)
    \/ /\ clock = E2EOn
       /\ \E uid \in {FmtU(i) : i \in 0..(E2EIds - 1)} : hook_write(1, uid, "on", StateIds)
    \/ /\ E2EPhaseReady
       /\ frame_every_ms(1, E2EEnd)

SpecE2E == Init /\ [][NextE2E]_vars

\* ================================================================== claims
\* ------------------------------------------------------------------------ C1
\* C1: a frame whose hook_callback invocation starts while the hook is off
\* (after a hook_off that succeeded, before the next hook_re_enable) never
\* gets as far as do_hook: every invocation that calls do_hook, whether the
\* thread is started or not, began outside the window.  An invocation that
\* began before the hook_off may still launch.
C1_NoLaunchFromOffWindow ==
    [][\A s \in StateIds :
          ( /\ cb[s].pc = "timer"
            /\ cb'[s].pc = "idle"
            /\ \/ launches'[s] # launches[s]
               \/ heap'[s].last_hook # heap[s].last_hook )
          => ~cb[s].startedOff]_vars

\* A hook that has launched, was then turned off, and has seen a frame inside
\* the window at a time when its interval of one second had long elapsed.
C1_Witness ==
    \E s \in StateIds :
        /\ offWindow[s] = "off_frame"
        /\ heap[s].interval = 1
        /\ Len(launches[s]) = 1
        /\ clock - launches[s][1] > 2000

\* ------------------------------------------------------------------------ C2
\* C2: over any window of length T the launches of one hook number at most
\* floor(T / interval_seconds) + 1.  The windows that decide it are those that
\* begin and end with a launch; T is in milliseconds here, so
\* floor(T / interval) is (T div 1000) div interval.
C2_LaunchesPerWindow ==
    \A s \in StateIds :
        \A i, j \in 1..Len(launches[s]) :
            i <= j =>
                (j - i) + 1 <=
                    (((launches[s][j] - launches[s][i]) \div 1000)
                        \div heap[s].interval) + 1

\* ------------------------------------------------------------------------ C3
\* C3: two successive launches of one hook lie more than interval_seconds
\* whole seconds apart, whatever interval the hook was created with.
C3_MinimumSpacing ==
    \A s \in StateIds :
        \A i \in 1..(Len(launches[s]) - 1) :
            LET d == launches[s][i + 1] - launches[s][i]
            IN  \/ d \div 1000 > heap[s].interval
                \/ d \div 1000 = heap[s].interval /\ d % 1000 > 0

\* ------------------------------------------------------------------------ C4
\* C4: the hook IDs taken by hook_read are pairwise distinct, whatever the
\* calls do afterwards, and no two live hook_states carry the same hook_id.
C4_HookIdsDistinct ==
    /\ \A i, j \in 1..Len(issued) : i # j => issued[i].id # issued[j].id
    /\ \A s, u \in StateIds :
           (s # u /\ heap[s].mem = "live" /\ heap[u].mem = "live")
           => heap[s].hook_id # heap[u].hook_id

\* Two calls run at once on different channels: the later one has created its
\* hook while the earlier one, whose arguments will be turned down, is still
\* between taking its ID and hook_on.
C4_Witness ==
    /\ Len(issued) = 2
    /\ issued[1].res = "pending"
    /\ issued[2].res = "ok"
    /\ \E t \in Threads, s \in StateIds :
           /\ thr[t].pc = "hook_on"
           /\ thr[t].data = <<",", "e", ",", "1">>
           /\ heap[s].mem = "live"
           /\ owner[s] # thr[t].chan

\* ------------------------------------------------------------------------ C5
\* The argument strings of the claim: no data at all, an empty context, an
\* empty extension, an interval of 0, no interval, an interval that is no
\* number.
C5_BadInputs ==
    { NULL,
      <<",", "e", ",", "1">>,
      <<"c", ",", ",", "1">>,
      <<"c", ",", "e", ",", "0">>,
      <<"c", ",", "e">>,
      <<"c", ",", "e", ",", "x">> }

\* C5: a call with one of these strings returns -1, and the step in which its
\* hook_on runs leaves every hook_state, every channel's datastore list and
\* audiohook list, and the module's reference count as they were.
C5_RejectedCreateLeavesNoTrace ==
    [][\A t \in Threads :
          ( /\ thr[t].pc = "hook_on"
            /\ thr'[t].pc = "idle"
            /\ thr[t].data \in C5_BadInputs )
          => /\ UNCHANGED <<heap, datastores, audiohooks, module_refs, owner>>
             /\ \A f \in InitFaults : hook_on_res(thr[t].data, f) = -1]_vars

\* A call was turned down on a channel that holds a hook.
C5_Witness ==
    \E i \in 1..Len(issued), s \in StateIds :
        /\ issued[i].res = "rejected"
        /\ heap[s].mem = "live"
        /\ datastores[owner[s]] # <<>>

\* ------------------------------------------------------------------------ C6
\* The hook ID names a hook created on channel c that the channel still holds.
C6_Known(c, uid) ==
    \E s \in StateIds :
        /\ heap[s].mem = "live"
        /\ owner[s] = c
        /\ detached[s] = 0
        /\ FmtU(heap[s].hook_id) = uid

\* C6: with any other hook ID (never created on the channel, created on
\* another channel only, or released by the channel's teardown) hook_off and
\* hook_re_enable return -1 and leave every hook_state as it is.
C6_UnknownIdNotFound ==
    \A c \in Chans, uid \in UidInputs :
        ~C6_Known(c, uid) =>
            /\ hook_off_res(c, uid) = -1
            /\ hook_off_heap(c, uid) = heap
            /\ hook_re_enable_res(c, uid) = -1
            /\ hook_re_enable_heap(c, uid) = heap
            /\ hook_write_res(c, uid, "off") = -1
            /\ hook_write_res(c, uid, "on") = -1

\* Channel 1 has been torn down with its hook, channel 2 holds a hook that has
\* been turned off: either ID is unknown on channel 1.
C6_Witness ==
    \E s, u \in StateIds :
        /\ owner[s] = 1
        /\ heap[s].mem = "freed"
        /\ owner[u] = 2
        /\ heap[u].mem = "live"
        /\ heap[u].disabled = 1

\* ------------------------------------------------------------------------ C7
\* A hook whose create returned 0, on a channel not yet in teardown.
C7_Created(s) == heap[s].mem = "live" /\ chanAlive[owner[s]]

\* C7: for every such hook, in every reachable state, hook_off and
\* hook_re_enable with the decimal string of its hook_id on its channel
\* return 0 and change the disabled flag of that hook_state alone; and a step
\* that changes a disabled flag changes nothing else.
C7_ToggleByReturnedId ==
    /\ [](\A s \in StateIds :
            C7_Created(s) =>
                LET c == owner[s]
                    uid == FmtU(heap[s].hook_id)
                IN  /\ hook_off_res(c, uid) = 0
                    /\ hook_off_heap(c, uid) = [heap EXCEPT ![s].disabled = 1]
                    /\ hook_re_enable_res(c, uid) = 0
                    /\ hook_re_enable_heap(c, uid) = [heap EXCEPT ![s].disabled = 0])
    /\ [][(\E s \in StateIds :
              heap[s].mem = "live" /\ heap'[s].disabled # heap[s].disabled)
          => /\ \E s \in StateIds :
                    heap' = [heap EXCEPT ![s].disabled = 1 - @]
             /\ UNCHANGED <<global_hook_id, datastores, audiohooks, chanAlive,
                            module_refs, thr, cb, td, clock, launches>>]_vars

\* Two hooks on one channel, one turned off after it has launched, the other
\* still on.
C7_Witness ==
    \E s, u \in StateIds :
        /\ s # u
        /\ C7_Created(s)
        /\ C7_Created(u)
        /\ owner[s] = owner[u]
        /\ heap[s].disabled = 1
        /\ Len(launches[s]) > 0
        /\ heap[u].disabled = 0

\* ------------------------------------------------------------------------ C8
\* The channel's teardown is over.
C8_TornDown(c) == ~chanAlive[c] /\ datastores[c] = <<>> /\ td[c] = 0

\* C8: no hook_state is ever detached or freed twice, none is freed before it
\* is detached, and once a channel's teardown is over every hook_state created
\* on it has been detached exactly once and freed exactly once.
C8_TeardownOncePerHook ==
    /\ \A s \in StateIds :
           detached[s] <= 1 /\ freed[s] <= detached[s]
    /\ \A c \in Chans :
           C8_TornDown(c) =>
               \A s \in StateIds :
                   owner[s] = c =>
                       detached[s] = 1 /\ freed[s] = 1 /\ heap[s].mem = "freed"

\* A channel torn down with two hooks, one enabled and one disabled, one of
\* them having launched.
C8_Witness ==
    \E c \in Chans, s, u \in StateIds :
        /\ C8_TornDown(c)
        /\ owner[s] = c
        /\ owner[u] = c
        /\ heap[s].disabled = 1
        /\ heap[u].disabled = 0
        /\ Len(launches[u]) > 0

\* ------------------------------------------------------------------------ C9
\* C9: a create the media pipeline refuses, or one that cannot allocate its
\* hook_state, leaves nothing behind: every hook_state on a channel's
\* datastore list is on that channel's audiohook list, and the module holds
\* exactly one reference per live hook_state.
C9_FailedCreateLeavesNothing ==
    /\ \A c \in Chans :
           \A i \in 1..Len(datastores[c]) : datastores[c][i].data \in audiohooks[c]
    /\ module_refs = Cardinality({s \in StateIds : heap[s].mem = "live"})

\* ----------------------------------------------------------------------- C10
\* C10: when the interval has elapsed and do_hook fails, hook_callback still
\* returns 0, the value it returns after a launch or a frame it ignores.
C10_LaunchFailureNotPropagated ==
    \A c \in Chans, s \in StateIds, f \in LaunchFaults :
        ( /\ s \in audiohooks[c]
          /\ cb[s].pc = "timer"
          /\ hook_due(ast_tvnow(clock), heap[s])
          /\ do_hook(c, heap[s], f) # 0 )
        => hook_callback_res(c, heap[s], ast_tvnow(clock), f) = 0

\* ----------------------------------------------------------------------- C11
\* The launches of hook_state s made at a time in lo..hi.
C11_LaunchesIn(s, lo, hi) ==
    Cardinality({k \in 1..Len(launches[s]) :
                    launches[s][k] >= lo /\ launches[s][k] <= hi})

\* C11: in the end-to-end run, for every hook: once the first E2EFrames
\* frames are through it has launched 3 times, give or take 1, and at no
\* moment more than 4 times on those frames; every thread
\* started was given the channel and the hook's own ID; the frames that come
\* while it is off add no launch; and from the moment it is on again until
\* one interval and a millisecond later exactly 1 more launch is made.
C11_EndToEnd ==
    \A s \in StateIds :
        (heap[s].mem = "live" /\ heap[s].status = "RUNNING") =>
            /\ C11_LaunchesIn(s, 0, E2EOff - 1) <= 4
            /\ clock >= E2EOff =>
                   C11_LaunchesIn(s, 0, E2EOff - 1) \in {2, 3, 4}
            /\ C11_LaunchesIn(s, E2EOff, E2EOn - 1) = 0
            /\ (clock > E2EOn /\ clock <= E2EOn + heap[s].interval * 1000 + 1) =>
                   C11_LaunchesIn(s, E2EOn, E2EEnd) = 1
            /\ Len(tasks[s]) = Len(launches[s])
            /\ \A k \in 1..Len(tasks[s]) :
                   /\ ~tasks[s][k].arg.null
                   /\ tasks[s][k].arg.chan_name = owner[s]
                   /\ tasks[s][k].arg.hook_id = FmtU(heap[s].hook_id)

\* The run is over for the hook with ID 1: three launches, none while off,
\* one more after it was turned on again.
C11_Witness ==
    /\ clock = E2EOn + 1001
    /\ \E s \in StateIds :
           /\ heap[s].hook_id = 1
           /\ heap[s].status = "RUNNING"
           /\ Len(launches[s]) = 4
           /\ launches[s][4] >= E2EOn

\* ----------------------------------------------------------------------- C12
\* Hook_state s has an entry on channel c's datastore list.
C12_Stored(c, s) ==
    \E i \in 1..Len(datastores[c]) : datastores[c][i].data = s

\* C12: a hook_state stays on its channel's datastore list for as long as the
\* channel is not in teardown; an entry leaves a datastore list, and a
\* hook_state leaves an audiohook list, only in a step of the channel's
\* teardown; and a step that changes a disabled flag leaves the datastore
\* lists, the audiohook lists and the audiohook's status as they were.
C12_DisableKeepsHook ==
    /\ [](\A s \in StateIds :
            (heap[s].mem = "live" /\ chanAlive[owner[s]]) =>
                C12_Stored(owner[s], s))
    /\ [][\A c \in Chans, s \in StateIds :
              ( \/ C12_Stored(c, s) /\ ~C12_Stored(c, s)'
                \/ s \in audiohooks[c] /\ s \notin audiohooks'[c] )
              => ~chanAlive[c]]_vars
    /\ [][\A s \in StateIds :
              heap'[s].disabled # heap[s].disabled =>
                  /\ heap'[s].status = heap[s].status
                  /\ heap'[s].mem = heap[s].mem
                  /\ datastores' = datastores
                  /\ audiohooks' = audiohooks]_vars

\* A hook that has launched, was turned off, has seen a frame while off and
\* was turned on again: it is still stored and still registered.
C12_Witness ==
    \E s \in StateIds :
        /\ offWindow[s] = "reon"
        /\ Len(launches[s]) > 0
        /\ chanAlive[owner[s]]
        /\ C12_Stored(owner[s], s)
        /\ s \in audiohooks[owner[s]]
        /\ heap[s].status = "RUNNING"

\* ----------------------------------------------------------------------- C13
\* The last call of do_hook for s failed: last_hook is set, and no launch is
\* recorded at that time.
C13_LastAttemptFailed(s) ==
    /\ heap[s].last_hook # TvZero
    /\ \/ launches[s] = <<>>
       \/ launches[s][Len(launches[s])] # heap[s].last_hook.ms

\* C13: a hook_callback invocation that finds the interval elapsed leaves
\* last_hook at now, whatever do_hook returned; and the invocation that calls
\* do_hook next after a failed one comes more than interval_seconds whole
\* seconds after it.
C13_NoRetryWithinInterval ==
    [][\A s \in StateIds :
          (cb[s].pc = "timer" /\ cb'[s].pc = "idle") =>
              /\ hook_due(ast_tvnow(clock), heap[s]) =>
                     heap'[s].last_hook = ast_tvnow(clock)
              /\ ( /\ C13_LastAttemptFailed(s)
                   /\ heap'[s].last_hook # heap[s].last_hook )
                 => LET d == clock - heap[s].last_hook.ms
                    IN  \/ d \div 1000 > heap[s].interval
                        \/ d \div 1000 = heap[s].interval /\ d % 1000 > 0]_vars

\* ----------------------------------------------------------------------- C14
\* The datastore entries, on any channel, that hold hook_state s.
C14_Slots(s) ==
    {<<c, i>> \in Chans \X (1..MaxIds) :
        i <= Len(datastores[c]) /\ datastores[c][i].data = s}

\* The audiohook lists that hold hook_state s.
C14_Registrations(s) == {c \in Chans : s \in audiohooks[c]}

\* C14: outside the two steps of its own teardown, a hook_state is alive if
\* and only if exactly one datastore entry holds it, and if and only if
\* exactly one audiohook list holds it; nothing else is stored or registered.
C14_StoredIffRegistered ==
    \A s \in StateIds :
        (\A c \in Chans : td[c] # s) =>
            /\ heap[s].mem = "live" <=> Cardinality(C14_Slots(s)) = 1
            /\ heap[s].mem = "live" <=> Cardinality(C14_Registrations(s)) = 1
            /\ Cardinality(C14_Slots(s)) <= 1
            /\ Cardinality(C14_Registrations(s)) <= 1

\* ----------------------------------------------------------------------- C15
\* C15: the references held on the module number the hook_states that are
\* alive (allocated and not yet freed), in every state and whatever creates
\* have failed; so none is held once no hook_state is alive.
C15_ModuleRefsMatchHooks ==
    /\ module_refs = Cardinality({s \in StateIds : heap[s].mem = "live"})
    /\ (\A s \in StateIds : heap[s].mem # "live") => module_refs = 0

\* ----------------------------------------------------------------------- C16
\* C16: a hook_callback invocation past its first test works on a hook_state
\* that is alive and not yet detached; none gets there for a hook_state that
\* is detached or freed; and a hook_state is freed only after its detach, with
\* no hook_callback invocation inside it.
C16_NoCallbackOnFreedState ==
    /\ [](\A s \in StateIds :
            cb[s].pc = "timer" => heap[s].mem = "live" /\ detached[s] = 0)
    /\ [][\A s \in StateIds :
              /\ (cb[s].pc = "idle" /\ cb'[s].pc = "timer")
                 => heap[s].mem = "live" /\ detached[s] = 0
              /\ ( \/ launches'[s] # launches[s]
                   \/ heap'[s].last_hook # heap[s].last_hook )
                 => heap[s].mem = "live" /\ detached[s] = 0
              /\ freed'[s] # freed[s]
                 => detached[s] = 1 /\ cb[s].pc = "idle"]_vars

\* The channel's destructor has begun while a hook_callback invocation for
\* one of its hooks is between its first test and its return.
C16_Witness ==
    \E s \in StateIds :
        /\ owner[s] # 0
        /\ ~chanAlive[owner[s]]
        /\ cb[s].pc = "timer"
        /\ C12_Stored(owner[s], s)

\* ----------------------------------------------------------------------- C17
\* C17: whatever hook_off or hook_re_enable finds under the channel lock, for
\* any hook ID on any channel, and so whatever it writes to, is a hook_state
\* that is alive and registered on that channel; and so is every hook_state
\* the channel's teardown comes to.
C17_TogglesSeeWholeHooks ==
    /\ \A c \in Chans, uid \in UidInputs :
           hook_lookup(c, uid) # 0 =>
               /\ heap[hook_lookup(c, uid)].mem = "live"
               /\ hook_lookup(c, uid) \in audiohooks[c]
    /\ \A c \in Chans :
           (~chanAlive[c] /\ datastores[c] # <<>>) =>
               Head(datastores[c]).data \in audiohooks[c]

\* ----------------------------------------------------------------------- C18
\* C18: every thread do_hook has started holds a copy of the hook ID, the
\* channel, the context and the extension as they were when it was started;
\* when it has run, what it passed on is that copy, whether or not the
\* hook_state was still there, and its argument has been destroyed once, not
\* before; and for every call of do_hook that allocates an argument, the
\* launcher destroys it once if the call fails and not at all if the thread
\* is started.
C18_SnapshotPerLaunch ==
    /\ \A s \in StateIds :
           \A k \in 1..Len(tasks[s]) :
               LET t == tasks[s][k]
               IN  /\ hook_launch_thread_originate(t) = t.trigger
                   /\ t.pc = "running" => t.frees = 0 /\ t.ran = NoRun
                   /\ t.pc = "done" => t.frees = 1 /\ t.ran = t.trigger
    /\ \A c \in Chans, s \in StateIds, f \in LaunchFaults :
           s \in audiohooks[c] =>
               /\ do_hook(c, heap[s], f) = 0 => do_hook_destroys(c, heap[s], f) = 0
               /\ (do_hook(c, heap[s], f) # 0 /\ f # "arg_calloc")
                  => do_hook_destroys(c, heap[s], f) = 1
               /\ f = "arg_calloc" => do_hook_destroys(c, heap[s], f) = 0

\* Two threads were started for one hook; one ran while the hook_state was
\* there, the other after the channel's teardown had freed it.
C18_Witness ==
    \E s \in StateIds :
        /\ Len(tasks[s]) >= 2
        /\ heap[s].mem = "freed"
        /\ \E k, j \in 1..Len(tasks[s]) :
               /\ tasks[s][k].pc = "done"
               /\ tasks[s][k].stateGone
               /\ tasks[s][j].pc = "done"
               /\ ~tasks[s][j].stateGone

\* ----------------------------------------------------------------------- C19
\* C19: a hook_state comes out of its creation enabled and with last_hook at
\* the zero timestamp; as long as last_hook is zero the timer test succeeds,
\* whatever the interval and the time; and the hook_callback invocation that
\* finds last_hook zero calls do_hook at once: it leaves last_hook at now, and
\* the launch is made unless do_hook fails.
C19_FirstFrameLaunches ==
    /\ [][\A s \in StateIds :
              (heap[s].mem = "unused" /\ heap'[s].mem = "live") =>
                  /\ heap'[s].last_hook = TvZero
                  /\ heap'[s].disabled = 0
                  /\ ~hook_callback_skips(heap'[s])]_vars
    /\ [](\A s \in StateIds :
            (heap[s].mem = "live" /\ heap[s].last_hook = TvZero) =>
                /\ launches[s] = <<>>
                /\ hook_due(ast_tvnow(clock), heap[s])
                /\ \A c \in Chans :
                       (s \in audiohooks[c] /\ heap[s].disabled = 0
                          /\ heap[s].context # NULL /\ heap[s].exten # NULL)
                       => /\ frame_due(c, s, ast_tvnow(clock))
                          /\ do_hook(c, heap[s], "none") = 0)
    /\ [][\A s \in StateIds :
              ( /\ cb[s].pc = "timer"
                /\ cb'[s].pc = "idle"
                /\ heap[s].last_hook = TvZero )
              => /\ heap'[s].last_hook = ast_tvnow(clock)
                 /\ launches'[s] \in {<<>>, <<clock>>}]_vars

\* A hook with the interval 4294968 has launched on a frame that came in the
\* millisecond of its creation.
C19_Witness ==
    \E s \in StateIds :
        /\ clock = 0
        /\ heap[s].interval = 4294968
        /\ launches[s] = <<0>>
        /\ heap[s].last_hook = ast_tvnow(0)

\* ----------------------------------------------------------------------- C20
\* C20: a frame that comes while the hook is off, and a hook_callback
\* invocation that finds the interval not elapsed, leave every hook_state and
\* every record of launches as they were; and the first invocation after a
\* hook_re_enable calls do_hook if and only if more than interval_seconds
\* whole seconds have passed since last_hook was set, however long the hook
\* was off.
C20_IdleFramesChangeNothing ==
    [][\A s \in StateIds :
          /\ (offWindow[s] # "off_frame" /\ offWindow'[s] = "off_frame")
             => UNCHANGED <<heap, launches, tasks>>
          /\ ( /\ cb[s].pc = "timer"
               /\ cb'[s].pc = "idle"
               /\ ~hook_due(ast_tvnow(clock), heap[s]) )
             => UNCHANGED <<heap, launches, tasks>>
          /\ ( /\ cb[s].pc = "timer"
               /\ cb'[s].pc = "idle"
               /\ cb[s].afterOn
               /\ heap[s].last_hook # TvZero )
             => LET d == clock - heap[s].last_hook.ms
                IN  heap'[s].last_hook # heap[s].last_hook
                    <=> \/ d \div 1000 > heap[s].interval
                        \/ d \div 1000 = heap[s].interval /\ d % 1000 > 0]_vars

====
